---- MODULE Spec2Model ----
(***************************************************************************)
(* Model of the go-selenium web driver facade (web_driver.go): driver      *)
(* construction, the value constructors (By, Timeout), the navigation      *)
(* commands (Go, CurrentURL, Back, Forward, Refresh, Title) and the two    *)
(* request helpers (stateRequest, valueRequest) with their JSON decoding.  *)
(*                                                                         *)
(* Go strings and byte slices are TLA+ strings; nil is the record Nil.     *)
(***************************************************************************)
EXTENDS Integers, Sequences, FiniteSets, TLC

VARIABLES driver, call, ret, performed, unmarshalled

vars == <<driver, call, ret, performed, unmarshalled>>

\* Go's nil (pointer, error, byte slice, interface).
Nil == [kind |-> "nil"]

(***************************************************************************)
(* strings package                                                         *)
(***************************************************************************)
HasPrefix(s, prefix) ==
    Len(s) >= Len(prefix) /\ SubSeq(s, 1, Len(prefix)) = prefix

HasSuffix(s, suffix) ==
    Len(s) >= Len(suffix) /\ SubSeq(s, Len(s) - Len(suffix) + 1, Len(s)) = suffix

\* strings.TrimSuffix removes ONE occurrence of suffix, if s ends with it.
TrimSuffix(s, suffix) ==
    IF HasSuffix(s, suffix) THEN SubSeq(s, 1, Len(s) - Len(suffix)) ELSE s

CharAt(s, i) == SubSeq(s, i, i)

\* Index (1-based) of the one-character string c in s, or 0.
IndexOf(s, c) ==
    IF \E i \in 1..Len(s) : CharAt(s, i) = c
    THEN CHOOSE i \in 1..Len(s) : CharAt(s, i) = c /\ \A j \in 1..(i - 1) : CharAt(s, j) # c
    ELSE 0

(***************************************************************************)
(* Error constructors (errors.New of github.com/pkg/errors, and the        *)
(* package's classified errors).                                           *)
(***************************************************************************)
errorsNew(msg) == [kind |-> "error", msg |-> msg]

newInvalidArgumentError(msg, arg, val) ==
    [kind |-> "InvalidArgument", msg |-> msg, arg |-> arg, val |-> val]

newSessionIDError(callingMethod) ==
    [kind |-> "MissingSession", method |-> callingMethod]

newInvalidURLError(err, url) ==
    [kind |-> "InvalidURL", cause |-> err, url |-> url]

newCommunicationError(err, callingMethod, url, resp) ==
    [kind |-> "Communication", cause |-> err, method |-> callingMethod,
     url |-> url, resp |-> resp]

newUnmarshallingError(err, callingMethod, json) ==
    [kind |-> "Unmarshalling", cause |-> err, method |-> callingMethod,
     json |-> json]

(***************************************************************************)
(* encoding/json: the scanner and decoder, as far as the struct targets    *)
(* stateResponse and valueResponse (string fields only) exercise them.     *)
(***************************************************************************)
Digits == "0123456789"

HexDigits == "0123456789abcdef"

UpperLetters == "ABCDEFGHIJKLMNOPQRSTUVWXYZ"

LowerLetters == "abcdefghijklmnopqrstuvwxyz"

\* Printable ASCII in code order, codes 32..95 and 97..126 (a TLA+ string
\* cannot hold the grave accent, code 96).
AsciiLow == " !\"#$%&'()*+,-./0123456789:;<=>?@ABCDEFGHIJKLMNOPQRSTUVWXYZ[\\]^_"

AsciiHigh == "abcdefghijklmnopqrstuvwxyz{|}~"

IsDigit(c) == Len(c) = 1 /\ IndexOf(Digits, c) > 0

LowerChar(c) ==
    LET i == IndexOf(UpperLetters, c) IN IF i > 0 THEN CharAt(LowerLetters, i) ELSE c

RECURSIVE ToLower(_)
ToLower(s) == IF s = "" THEN "" ELSE LowerChar(Head(s)) \o ToLower(Tail(s))

\* Value of a hexadecimal digit (either case), or -1.
HexVal(c) ==
    LET i == IndexOf(HexDigits, LowerChar(c)) IN IF Len(c) = 1 /\ i > 0 THEN i - 1 ELSE -1

isSpace(c) == c \in {" ", "\t", "\r", "\n"}

ScanFail == [ok |-> FALSE, next |-> 0, v |-> Nil]

ScanOk(next, v) == [ok |-> TRUE, next |-> next, v |-> v]

\* Code point of the four hexadecimal digits at s[i..i+3].
HexCode(s, i) ==
    4096 * HexVal(CharAt(s, i)) + 256 * HexVal(CharAt(s, i + 1))
    + 16 * HexVal(CharAt(s, i + 2)) + HexVal(CharAt(s, i + 3))

\* The character of a code point (printable ASCII only; any other code
\* point is kept as an opaque marker).
CharOf(code, digits) ==
    IF code >= 32 /\ code - 32 < Len(AsciiLow) THEN CharAt(AsciiLow, code - 32 + 1)
    ELSE IF code >= 97 /\ code - 97 < Len(AsciiHigh) THEN CharAt(AsciiHigh, code - 97 + 1)
    ELSE "\\u" \o digits

UnicodeEscape(s, i) == CharOf(HexCode(s, i), SubSeq(s, i, i + 3))

\* What the escape character e (after a backslash at i - 1) stands for, as
\* [ok, len, text]; len counts the characters after the backslash.
Escape(s, i, e) ==
    IF e \in {"\"", "\\", "/"} THEN [ok |-> TRUE, len |-> 1, text |-> e]
    ELSE IF e = "n" THEN [ok |-> TRUE, len |-> 1, text |-> "\n"]
    ELSE IF e = "t" THEN [ok |-> TRUE, len |-> 1, text |-> "\t"]
    ELSE IF e = "r" THEN [ok |-> TRUE, len |-> 1, text |-> "\r"]
    ELSE IF e = "u" /\ i + 4 <= Len(s) /\ \A k \in 1..4 : HexVal(CharAt(s, i + k)) >= 0
    THEN [ok |-> TRUE, len |-> 5, text |-> UnicodeEscape(s, i + 1)]
    ELSE [ok |-> FALSE, len |-> 0, text |-> ""]

\* A string literal whose opening quote is at i - 1; acc is the unquoted
\* text so far.
RECURSIVE ScanString(_, _, _)
RECURSIVE ScanEscaped(_, _, _, _)
ScanString(s, i, acc) ==
    IF i > Len(s) THEN ScanFail
    ELSE IF CharAt(s, i) = "\"" THEN ScanOk(i + 1, [t |-> "string", s |-> acc])
    ELSE IF CharAt(s, i) \in {"\t", "\r", "\n"} THEN ScanFail
    ELSE IF CharAt(s, i) # "\\" THEN ScanString(s, i + 1, acc \o CharAt(s, i))
    ELSE IF i + 1 > Len(s) THEN ScanFail
    ELSE ScanEscaped(s, i + 1, acc, Escape(s, i + 1, CharAt(s, i + 1)))

ScanEscaped(s, i, acc, e) ==
    IF e.ok THEN ScanString(s, i + e.len, acc \o e.text) ELSE ScanFail

\* The scanner's number states: -? (0 | [1-9][0-9]*) (. [0-9]+)? ([eE] [+-]? [0-9]+)?
\* The state after reading character c in state st, "" when c cannot follow.
NumberStep(st, c) ==
    IF st = "begin" THEN (IF c = "-" THEN "neg" ELSE IF c = "0" THEN "0"
                          ELSE IF IsDigit(c) THEN "1" ELSE "")
    ELSE IF st = "neg" THEN (IF c = "0" THEN "0" ELSE IF IsDigit(c) THEN "1" ELSE "")
    ELSE IF st = "1" /\ IsDigit(c) THEN "1"
    ELSE IF st \in {"0", "1"} THEN (IF c = "." THEN "dot"
                                    ELSE IF c \in {"e", "E"} THEN "e" ELSE "")
    ELSE IF st \in {"dot", "dot0"} /\ IsDigit(c) THEN "dot0"
    ELSE IF st = "dot0" /\ c \in {"e", "E"} THEN "e"
    ELSE IF st = "e" /\ c \in {"+", "-"} THEN "eSign"
    ELSE IF st \in {"e", "eSign", "e0"} /\ IsDigit(c) THEN "e0"
    ELSE ""

\* The position after the longest number starting at its first character,
\* i being the next character to read; 0 when the text read is no number.
RECURSIVE NumberEnd(_, _, _)
NumberEnd(s, i, st) ==
    IF i <= Len(s) /\ NumberStep(st, CharAt(s, i)) # ""
    THEN NumberEnd(s, i + 1, NumberStep(st, CharAt(s, i)))
    ELSE IF st \in {"0", "1", "dot0", "e0"} THEN i ELSE 0

NumberToken(s, i, end) ==
    IF end = 0 THEN ScanFail ELSE ScanOk(end, [t |-> "number", s |-> SubSeq(s, i, end - 1)])

ScanNumber(s, i) == NumberToken(s, i, NumberEnd(s, i, "begin"))

ScanLiteral(s, i) ==
    IF i + 3 <= Len(s) /\ SubSeq(s, i, i + 3) = "null" THEN ScanOk(i + 4, [t |-> "null"])
    ELSE IF i + 3 <= Len(s) /\ SubSeq(s, i, i + 3) = "true"
         THEN ScanOk(i + 4, [t |-> "bool", s |-> "true"])
    ELSE IF i + 4 <= Len(s) /\ SubSeq(s, i, i + 4) = "false"
         THEN ScanOk(i + 5, [t |-> "bool", s |-> "false"])
    ELSE ScanFail

Punctuation == {"{", "}", "[", "]", ":", ","}

\* The tokens of s from position i on, space skipped: [ok, toks].
RECURSIVE Tokenize(_, _, _)
RECURSIVE TokenizeAfter(_, _, _)
Tokenize(s, i, acc) ==
    IF i > Len(s) THEN [ok |-> TRUE, toks |-> acc]
    ELSE IF isSpace(CharAt(s, i)) THEN Tokenize(s, i + 1, acc)
    ELSE IF CharAt(s, i) \in Punctuation
         THEN Tokenize(s, i + 1, Append(acc, [t |-> CharAt(s, i)]))
    ELSE TokenizeAfter(s, acc,
                       IF CharAt(s, i) = "\"" THEN ScanString(s, i + 1, "")
                       ELSE IF CharAt(s, i) = "-" \/ IsDigit(CharAt(s, i))
                            THEN ScanNumber(s, i)
                       ELSE ScanLiteral(s, i))

TokenizeAfter(s, acc, r) ==
    IF r.ok THEN Tokenize(s, r.next, Append(acc, r.v)) ELSE [ok |-> FALSE, toks |-> <<>>]

Pop(stack) == SubSeq(stack, 1, Len(stack) - 1)

GrammarFail == [ok |-> FALSE, stack |-> <<>>, expect |-> ""]

\* The scanner's grammar: the parse stack and what may come next after the
\* token tok, given the stack and what was expected.
GrammarStep(tok, stack, expect) ==
    IF expect \in {"value", "valueOrEnd"}
    THEN IF tok.t \in {"string", "number", "null", "bool"}
         THEN [ok |-> TRUE, stack |-> stack, expect |-> "afterValue"]
         ELSE IF tok.t = "{"
         THEN [ok |-> TRUE, stack |-> Append(stack, "object"), expect |-> "keyOrEnd"]
         ELSE IF tok.t = "["
         THEN [ok |-> TRUE, stack |-> Append(stack, "array"), expect |-> "valueOrEnd"]
         ELSE IF tok.t = "]" /\ expect = "valueOrEnd"
         THEN [ok |-> TRUE, stack |-> Pop(stack), expect |-> "afterValue"]
         ELSE GrammarFail
    ELSE IF expect \in {"key", "keyOrEnd"}
    THEN IF tok.t = "string" THEN [ok |-> TRUE, stack |-> stack, expect |-> "colon"]
         ELSE IF tok.t = "}" /\ expect = "keyOrEnd"
         THEN [ok |-> TRUE, stack |-> Pop(stack), expect |-> "afterValue"]
         ELSE GrammarFail
    ELSE IF expect = "colon"
    THEN IF tok.t = ":" THEN [ok |-> TRUE, stack |-> stack, expect |-> "value"]
         ELSE GrammarFail
    ELSE IF stack = <<>> THEN GrammarFail
    ELSE IF stack[Len(stack)] = "object"
    THEN IF tok.t = "," THEN [ok |-> TRUE, stack |-> stack, expect |-> "key"]
         ELSE IF tok.t = "}" THEN [ok |-> TRUE, stack |-> Pop(stack), expect |-> "afterValue"]
         ELSE GrammarFail
    ELSE IF tok.t = "," THEN [ok |-> TRUE, stack |-> stack, expect |-> "value"]
         ELSE IF tok.t = "]" THEN [ok |-> TRUE, stack |-> Pop(stack), expect |-> "afterValue"]
         ELSE GrammarFail

\* checkValid: the tokens from k on complete exactly one JSON value.
RECURSIVE ValidFrom(_, _, _)
ValidFrom(toks, k, st) ==
    IF ~st.ok THEN FALSE
    ELSE IF k > Len(toks) THEN st.stack = <<>> /\ st.expect = "afterValue"
    ELSE ValidFrom(toks, k + 1, GrammarStep(toks[k], st.stack, st.expect))

\* The index after the value whose first token is at k (depth 0 on entry).
RECURSIVE ValueEnd(_, _, _)
ValueEnd(toks, k, depth) ==
    IF toks[k].t \in {"{", "["} THEN ValueEnd(toks, k + 1, depth + 1)
    ELSE IF toks[k].t \in {"}", "]"} /\ depth > 1 THEN ValueEnd(toks, k + 1, depth - 1)
    ELSE IF depth = 0 \/ toks[k].t \in {"}", "]"} THEN k + 1
    ELSE ValueEnd(toks, k + 1, depth)

\* The kind of the value whose first token is tok, with its text if a string.
ValueOf(tok) ==
    IF tok.t = "{" THEN [t |-> "object"]
    ELSE IF tok.t = "[" THEN [t |-> "array"]
    ELSE tok

\* The members of a valid object, k being at a key or at the closing brace.
RECURSIVE Members(_, _, _)
Members(toks, k, acc) ==
    IF toks[k].t = "}" THEN acc
    ELSE IF toks[k].t = "," THEN Members(toks, k + 1, acc)
    ELSE Members(toks, ValueEnd(toks, k + 2, 0),
                 Append(acc, [k |-> toks[k].s, v |-> ValueOf(toks[k + 2])]))

\* The top-level value of valid tokens; of an object, its members in order.
TopValue(toks) ==
    IF toks[1].t = "{" THEN [t |-> "object", members |-> Members(toks, 2, <<>>)]
    ELSE ValueOf(toks[1])

ParseTokens(r) ==
    IF r.ok /\ ValidFrom(r.toks, 1, [ok |-> TRUE, stack |-> <<>>, expect |-> "value"])
    THEN [ok |-> TRUE, v |-> TopValue(r.toks)]
    ELSE [ok |-> FALSE, v |-> Nil]

\* The whole input must be exactly one JSON value.
ParseJSON(data) == ParseTokens(Tokenize(data, 1, <<>>))

SyntaxError == [kind |-> "json.SyntaxError"]

UnmarshalTypeError(value, field) ==
    [kind |-> "json.UnmarshalTypeError", value |-> value, field |-> field]

\* The struct field a JSON key selects: an exact tag match, else a
\* case-insensitive one; Nil when the key names no field.
MatchField(fields, key) ==
    IF \E f \in fields : f.tag = key THEN CHOOSE f \in fields : f.tag = key
    ELSE IF \E f \in fields : ToLower(f.tag) = ToLower(key)
         THEN CHOOSE f \in fields : ToLower(f.tag) = ToLower(key)
    ELSE Nil

\* Decode the object's members in order into the struct value val; err is
\* the first type error met (decoding goes on after it).
RECURSIVE DecodeMembers(_, _, _, _)
DecodeMember(m, f, val, err) ==
    IF f = Nil \/ m.v.t = "null" THEN [val |-> val, err |-> err]
    ELSE IF m.v.t = "string" THEN [val |-> [val EXCEPT ![f.name] = m.v.s], err |-> err]
    ELSE [val |-> val, err |-> IF err = Nil THEN UnmarshalTypeError(m.v.t, f.name) ELSE err]

DecodeNext(members, fields, d) == DecodeMembers(members, fields, d.val, d.err)

DecodeMembers(members, fields, val, err) ==
    IF members = <<>> THEN [val |-> val, err |-> err]
    ELSE DecodeNext(Tail(members), fields,
                    DecodeMember(Head(members), MatchField(fields, Head(members).k),
                                 val, err))

\* Decoding the parsed input p into the zero struct value.
DecodeValue(p, fields, zero) ==
    IF ~p.ok THEN [val |-> zero, err |-> SyntaxError]
    ELSE IF p.v.t = "null" THEN [val |-> zero, err |-> Nil]
    ELSE IF p.v.t # "object" THEN [val |-> zero, err |-> UnmarshalTypeError(p.v.t, "")]
    ELSE DecodeMembers(p.v.members, fields, zero, Nil)

\* json.Unmarshal(data, &response) for a struct of string fields, response
\* being the zero value on entry.
Unmarshal(data, fields) ==
    DecodeValue(ParseJSON(data), fields, [n \in {f.name : f \in fields} |-> ""])

\* The text of a JSON string literal: json.Marshal escapes quotes,
\* backslashes, control characters and (by default) <, > and &.
RECURSIVE EscapeString(_)
EscapeString(s) ==
    IF s = "" THEN ""
    ELSE LET c == Head(s)
             e == IF c = "\"" THEN "\\\""
                  ELSE IF c = "\\" THEN "\\\\"
                  ELSE IF c = "\n" THEN "\\n"
                  ELSE IF c = "\r" THEN "\\r"
                  ELSE IF c = "\t" THEN "\\t"
                  ELSE IF c = "<" THEN "\\u003c"
                  ELSE IF c = ">" THEN "\\u003e"
                  ELSE IF c = "&" THEN "\\u0026"
                  ELSE c
         IN e \o EscapeString(Tail(s))

\* json.Marshal of a map[string]string given as its key-sorted sequence of
\* <<key, value>> pairs; it cannot fail.
RECURSIVE MarshalPairs(_)
MarshalPairs(pairs) ==
    IF pairs = <<>> THEN ""
    ELSE "\"" \o EscapeString(Head(pairs)[1]) \o "\":\"" \o EscapeString(Head(pairs)[2]) \o "\""
         \o (IF Len(pairs) > 1 THEN "," ELSE "") \o MarshalPairs(Tail(pairs))

jsonMarshal(pairs) == [bytes |-> "{" \o MarshalPairs(pairs) \o "}", err |-> Nil]

(***************************************************************************)
(* Driver construction and the value constructors                          *)
(***************************************************************************)
\* &seleniumWebDriver{seleniumURL, capabilities, apiService}; sessionID is
\* the zero value. capabilities is represented by its browser name.
seleniumWebDriver(seleniumURL, sessionID, capabilities) ==
    [kind |-> "seleniumWebDriver", seleniumURL |-> seleniumURL,
     sessionID |-> sessionID, capabilities |-> capabilities]

\* Mutant: the capabilities' browser name is not looked at.
NewSeleniumWebDriverAnyBrowser(serviceURL, capabilities) ==
    IF serviceURL = ""
    THEN [val |-> Nil, err |-> errorsNew("Provided Selenium URL is invalid")]
    ELSE IF ~(HasPrefix(serviceURL, "http://") \/ HasPrefix(serviceURL, "https://"))
    THEN [val |-> Nil, err |-> errorsNew("Provided Selenium URL is invalid.")]
    ELSE [val |-> seleniumWebDriver(TrimSuffix(serviceURL, "/"), "", capabilities),
          err |-> Nil]

NewSeleniumWebDriver(serviceURL, capabilities) ==
    IF serviceURL = ""
    THEN [val |-> Nil, err |-> errorsNew("Provided Selenium URL is invalid")]
    ELSE IF ~(HasPrefix(serviceURL, "http://") \/ HasPrefix(serviceURL, "https://"))
    THEN [val |-> Nil, err |-> errorsNew("Provided Selenium URL is invalid.")]
    ELSE IF ~(capabilities.browserName # "")
    THEN [val |-> Nil, err |-> errorsNew("An invalid capabilities object was provided.")]
    ELSE LET trimmed == IF HasSuffix(serviceURL, "/")
                        THEN TrimSuffix(serviceURL, "/")
                        ELSE serviceURL
         IN [val |-> seleniumWebDriver(trimmed, "", capabilities), err |-> Nil]

DriverURL(s) == s.seleniumURL

timeout(timeoutType, to) == [kind |-> "timeout", timeoutType |-> timeoutType, timeout |-> to]

SessionScriptTimeout(to) == timeout("script", to)

SessionPageLoadTimeout(to) == timeout("page load", to)

SessionImplicitWaitTimeout(to) == timeout("implicit", to)

\* value is an interface{}: the value tagged with its dynamic type.
by(t, value) == [kind |-> "by", t |-> t, value |-> value]

\* The decimal digits of a natural number.
RECURSIVE Itoa(_)
Itoa(n) ==
    IF n < 10 THEN CharAt(Digits, n + 1)
    ELSE Itoa(n \div 10) \o CharAt(Digits, (n % 10) + 1)

\* string(index) for an integer: the UTF-8 text of that code point, the
\* replacement character for values that are no code point. The text is
\* written by the code point's number.
StringOfRune(n) == "U+" \o Itoa(IF n > 1114111 THEN 65533 ELSE n)

\* index is a uint: the inputs are non-negative.
ByIndex(index) ==
    IF index > 65535
    THEN [val |-> Nil,
          err |-> newInvalidArgumentError("Index out of range in ByIndex()", "index",
                                          StringOfRune(index))]
    ELSE [val |-> by("index", [uint |-> index]), err |-> Nil]

ByCSSSelector(selector) ==
    IF selector = ""
    THEN [val |-> Nil,
          err |-> newInvalidArgumentError("Argument empty in ByCSSSelector()", "selector",
                                          selector)]
    ELSE [val |-> by("css selector", [string |-> selector]), err |-> Nil]

(***************************************************************************)
(* Requests.  reply is what apiService.performRequest returns for the      *)
(* request: [bytes, err].  An outcome records, besides the return values,  *)
(* the requests handed to the transport and the inputs given to            *)
(* json.Unmarshal.                                                         *)
(***************************************************************************)
request(url, method, body, callingMethod) ==
    [url |-> url, method |-> method, body |-> body, callingMethod |-> callingMethod]

stateResponse == {[name |-> "State", tag |-> "state"]}

valueResponse == {[name |-> "State", tag |-> "state"], [name |-> "Value", tag |-> "value"]}

Outcome(val, err, reqs, decoded) ==
    [val |-> val, err |-> err, performed |-> reqs, unmarshalled |-> decoded]

\* The requests a call of performRequest with req hands to the transport.
Sent(req) == <<[url |-> req.url, method |-> req.method, body |-> req.body]>>

\* Mutant: the unmarshalling error carries the decoder's message in place
\* of the bytes received.
UnmarshalledWithoutBytes(req, resp, u) ==
    IF u.err # Nil
    THEN Outcome(Nil, newUnmarshallingError(u.err, req.callingMethod, u.err.kind), Sent(req),
                 <<resp>>)
    ELSE Outcome(u.val, Nil, Sent(req), <<resp>>)

\* The return after json.Unmarshal gave u for the bytes resp; string(resp)
\* is the same bytes as a string.
Unmarshalled(req, resp, u) ==
    IF u.err # Nil
    THEN Outcome(Nil, newUnmarshallingError(u.err, req.callingMethod, resp), Sent(req),
                 <<resp>>)
    ELSE Outcome(u.val, Nil, Sent(req), <<resp>>)

\* Mutant: a failed request is sent a second time.
stateRequestRetry(req, reply) ==
    IF reply.err # Nil
    THEN Outcome(Nil, newCommunicationError(reply.err, req.callingMethod, req.url, reply.bytes),
                 Sent(req) \o Sent(req), <<>>)
    ELSE Unmarshalled(req, reply.bytes, Unmarshal(reply.bytes, stateResponse))

stateRequest(req, reply) ==
    IF reply.err # Nil
    THEN Outcome(Nil, newCommunicationError(reply.err, req.callingMethod, req.url, reply.bytes),
                 Sent(req), <<>>)
    ELSE Unmarshalled(req, reply.bytes, Unmarshal(reply.bytes, stateResponse))

\* Mutant: the bytes are decoded whatever the transport's error.
valueRequestDecodeFirst(req, reply) ==
    Unmarshalled(req, reply.bytes, Unmarshal(reply.bytes, valueResponse))

valueRequest(req, reply) ==
    IF reply.err # Nil
    THEN Outcome(Nil, newCommunicationError(reply.err, req.callingMethod, req.url, reply.bytes),
                 Sent(req), <<>>)
    ELSE Unmarshalled(req, reply.bytes, Unmarshal(reply.bytes, valueResponse))

(***************************************************************************)
(* Navigation commands on the driver s                                     *)
(***************************************************************************)
\* The response structs, built from the decoded reply resp.
GoResponse(resp) == [kind |-> "GoResponse", State |-> resp.State]

CurrentURLResponse(resp) ==
    [kind |-> "CurrentURLResponse", State |-> resp.State, URL |-> resp.Value]

BackResponse(resp) == [kind |-> "BackResponse", State |-> resp.State]

ForwardResponse(resp) == [kind |-> "ForwardResponse", State |-> resp.State]

RefreshResponse(resp) == [kind |-> "RefreshResponse", State |-> resp.State]

TitleResponse(resp) ==
    [kind |-> "TitleResponse", State |-> resp.State, Title |-> resp.Value]

newMarshallingError(err, callingMethod, obj) ==
    [kind |-> "Marshalling", cause |-> err, method |-> callingMethod, obj |-> obj]

\* if err != nil { return nil, err }; return &response, nil
Return(r, response) ==
    IF r.err # Nil THEN Outcome(Nil, r.err, r.performed, r.unmarshalled)
    ELSE Outcome(response, Nil, r.performed, r.unmarshalled)

\* bytes.NewReader(b): a reader of the bytes b.
bytesNewReader(b) == [kind |-> "bytes.Reader", bytes |-> b]

\* The part of Go after json.Marshal returned marshalledJSON.
GoMarshalled(url, params, marshalledJSON, reply) ==
    IF marshalledJSON.err # Nil
    THEN Outcome(Nil, newMarshallingError(marshalledJSON.err, "Go()", params), <<>>, <<>>)
    ELSE LET r == stateRequest(request(url, "POST", bytesNewReader(marshalledJSON.bytes),
                                            "Go"), reply)
         IN Return(r, GoResponse(r.val))

\* Mutant: only the empty target URL is refused.
GoEmptyOnly(s, goURL, reply) ==
    LET url == s.seleniumURL \o "/session/" \o s.sessionID \o "/url" IN
    IF s.sessionID = ""
    THEN Outcome(Nil, newSessionIDError("Go()"), <<>>, <<>>)
    ELSE IF goURL = ""
    THEN Outcome(Nil, newInvalidURLError(errorsNew("Invalid URL in Go()"), goURL), <<>>, <<>>)
    ELSE GoMarshalled(url, <<<<"url", goURL>>>>, jsonMarshal(<<<<"url", goURL>>>>), reply)

Go(s, goURL, reply) ==
    LET url == s.seleniumURL \o "/session/" \o s.sessionID \o "/url" IN
    IF s.sessionID = ""
    THEN Outcome(Nil, newSessionIDError("Go()"), <<>>, <<>>)
    ELSE LET invalidURL == goURL = ""
             validProtocol == HasPrefix(goURL, "https://") \/ HasPrefix(goURL, "http://")
         IN IF invalidURL \/ ~validProtocol
            THEN Outcome(Nil, newInvalidURLError(errorsNew("Invalid URL in Go()"), goURL),
                         <<>>, <<>>)
            ELSE GoMarshalled(url, <<<<"url", goURL>>>>, jsonMarshal(<<<<"url", goURL>>>>),
                              reply)

CurrentURL(s, reply) ==
    LET url == s.seleniumURL \o "/session/" \o s.sessionID \o "/url" IN
    IF s.sessionID = ""
    THEN Outcome(Nil, newSessionIDError("CurrentURL()"), <<>>, <<>>)
    ELSE LET r == valueRequest(request(url, "GET", Nil, "CurrentURL"), reply)
         IN Return(r, CurrentURLResponse(r.val))

\* Mutant: the session id is not looked at before the request.
BackUnchecked(s, reply) ==
    LET url == s.seleniumURL \o "/session/" \o s.sessionID \o "/back"
        r == stateRequest(request(url, "POST", Nil, "Back"), reply)
    IN Return(r, BackResponse(r.val))

Back(s, reply) ==
    LET url == s.seleniumURL \o "/session/" \o s.sessionID \o "/back" IN
    IF s.sessionID = ""
    THEN Outcome(Nil, newSessionIDError("Back()"), <<>>, <<>>)
    ELSE LET r == stateRequest(request(url, "POST", Nil, "Back"), reply)
         IN Return(r, BackResponse(r.val))

Forward(s, reply) ==
    LET url == s.seleniumURL \o "/session/" \o s.sessionID \o "/forward" IN
    IF s.sessionID = ""
    THEN Outcome(Nil, newSessionIDError("Forward()"), <<>>, <<>>)
    ELSE LET r == stateRequest(request(url, "POST", Nil, "Forward"), reply)
         IN Return(r, ForwardResponse(r.val))

Refresh(s, reply) ==
    LET url == s.seleniumURL \o "/session/" \o s.sessionID \o "/refresh" IN
    IF s.sessionID = ""
    THEN Outcome(Nil, newSessionIDError("Refresh()"), <<>>, <<>>)
    ELSE LET r == stateRequest(request(url, "POST", Nil, "Refresh"), reply)
         IN Return(r, RefreshResponse(r.val))

Title(s, reply) ==
    LET url == s.seleniumURL \o "/session/" \o s.sessionID \o "/title" IN
    IF s.sessionID = ""
    THEN Outcome(Nil, newSessionIDError("Title()"), <<>>, <<>>)
    ELSE LET r == valueRequest(request(url, "GET", Nil, "Title"), reply)
         IN Return(r, TitleResponse(r.val))

(***************************************************************************)
(* Session lifecycle.  CreateSession stores the session id the server      *)
(* granted; DeleteSession clears it; both leave it alone on failure.       *)
(***************************************************************************)
CreateSession(s, granted) ==
    IF granted = ""
    THEN [driver |-> s, val |-> Nil,
          err |-> newCommunicationError(errorsNew("no session"), "CreateSession",
                                        s.seleniumURL \o "/session", "")]
    ELSE [driver |-> [s EXCEPT !.sessionID = granted],
          val |-> [kind |-> "CreateSessionResponse", SessionID |-> granted], err |-> Nil]

DeleteSession(s, deleted) ==
    IF s.sessionID = ""
    THEN [driver |-> s, val |-> Nil, err |-> newSessionIDError("DeleteSession()")]
    ELSE IF ~deleted
    THEN [driver |-> s, val |-> Nil,
          err |-> newCommunicationError(errorsNew("not deleted"), "DeleteSession",
                                        s.seleniumURL \o "/session/" \o s.sessionID, "")]
    ELSE [driver |-> [s EXCEPT !.sessionID = ""],
          val |-> [kind |-> "DeleteSessionResponse", State |-> "success"], err |-> Nil]

(***************************************************************************)
(* Inputs                                                                  *)
(***************************************************************************)
\* Most slashes appended to a service URL.
MaxSlashes == 2

RECURSIVE Slashes(_)
Slashes(n) == IF n = 0 THEN "" ELSE "/" \o Slashes(n - 1)

BaseURLs == {"", "localhost:4444", "ftp://h", "HTTP://h", "http:/", "http://h",
             "https://h:4444/wd/hub"}

ServiceURLs == {b \o Slashes(k) : b \in BaseURLs, k \in 0..MaxSlashes}

BrowserNames == {"", "firefox"}

SessionIDs == {"", "5f3a"}

GoURLs == {"", "x", "ftp://x", "https:/x", "https://x", "http://x?a=1&b=\"q\""}

IndexInputs == {0, 1, 65534, 65535, 65536, 65537, 2147483647}

Selectors == {"", ".foo", " ", "#a > b"}

TimeoutInputs == {-2147483647, -1, 0, 1, 30000}

\* Bytes the transport hands back with a nil error.
ReplyBytes ==
    {"{\"state\":\"success\"}",
     "{\"state\":\"success\",\"value\":\"https://example.com\"}",
     " { \"State\" : \"ok\" , \"extra\" : [1, {\"y\": -1.5e+3}, true] } ",
     "{}",
     "{\"value\":\"t\"}",
     "{\"state\":null}",
     "{\"state\":5}",
     "{\"state\":\"success\",\"value\":7}",
     "null",
     "[]",
     "\"success\"",
     "",
     "{\"state\":",
     "<html>",
     "{\"state\":\"success\"}}"}

Replies ==
    [bytes : ReplyBytes, err : {Nil}]
    \cup [bytes : {"", "502 Bad Gateway", "{\"state\":\"success\",\"value\":\"v\"}"},
          err : {errorsNew("dial tcp: connection refused")}]

(***************************************************************************)
(* State: the driver under test (Nil before a construction succeeded),     *)
(* the latest call with the driver's fields on entry and the transport's   *)
(* reply if it was asked, what the call returned, the requests it handed   *)
(* to the transport and the inputs it gave to json.Unmarshal.  The         *)
(* arguments of a call are a record of them by name.                       *)
(***************************************************************************)
Invocation(name, arg, reply) ==
    [name |-> name, arg |-> arg,
     sessionID |-> IF driver = Nil THEN "" ELSE driver.sessionID,
     seleniumURL |-> IF driver = Nil THEN "" ELSE driver.seleniumURL,
     reply |-> reply]

Init ==
    /\ driver = Nil
    /\ call = [name |-> "", arg |-> Nil, sessionID |-> "", seleniumURL |-> "", reply |-> Nil]
    /\ ret = [val |-> Nil, err |-> Nil]
    /\ performed = <<>>
    /\ unmarshalled = <<>>

\* A call that involves no transport.
Local(name, arg, r) ==
    /\ call' = Invocation(name, arg, Nil)
    /\ ret' = [val |-> r.val, err |-> r.err]
    /\ performed' = <<>>
    /\ unmarshalled' = <<>>

\* A command's outcome o, the transport answering reply when asked.
Command(name, arg, reply, o) ==
    /\ call' = Invocation(name, arg, IF o.performed = <<>> THEN Nil ELSE reply)
    /\ ret' = [val |-> o.val, err |-> o.err]
    /\ performed' = o.performed
    /\ unmarshalled' = o.unmarshalled

CallNewSeleniumWebDriver ==
    \E serviceURL \in ServiceURLs, browserName \in BrowserNames :
        LET r == NewSeleniumWebDriver(serviceURL, [browserName |-> browserName]) IN
        /\ Local("NewSeleniumWebDriver",
                 [serviceURL |-> serviceURL, browserName |-> browserName], r)
        /\ driver' = IF r.err = Nil THEN r.val ELSE driver

CallDriverURL ==
    /\ driver # Nil
    /\ Local("DriverURL", Nil, [val |-> [string |-> DriverURL(driver)], err |-> Nil])
    /\ UNCHANGED driver

CallByIndex ==
    \E index \in IndexInputs :
        /\ Local("ByIndex", [index |-> index], ByIndex(index))
        /\ UNCHANGED driver

CallByCSSSelector ==
    \E selector \in Selectors :
        /\ Local("ByCSSSelector", [selector |-> selector], ByCSSSelector(selector))
        /\ UNCHANGED driver

CallSessionScriptTimeout ==
    \E to \in TimeoutInputs :
        /\ Local("SessionScriptTimeout", [to |-> to], [val |-> SessionScriptTimeout(to), err |-> Nil])
        /\ UNCHANGED driver

CallSessionPageLoadTimeout ==
    \E to \in TimeoutInputs :
        /\ Local("SessionPageLoadTimeout", [to |-> to],
                 [val |-> SessionPageLoadTimeout(to), err |-> Nil])
        /\ UNCHANGED driver

CallSessionImplicitWaitTimeout ==
    \E to \in TimeoutInputs :
        /\ Local("SessionImplicitWaitTimeout", [to |-> to],
                 [val |-> SessionImplicitWaitTimeout(to), err |-> Nil])
        /\ UNCHANGED driver

CallCreateSession ==
    /\ driver # Nil
    /\ \E granted \in SessionIDs :
        LET r == CreateSession(driver, granted) IN
        /\ Local("CreateSession", Nil, r)
        /\ driver' = r.driver

CallDeleteSession ==
    /\ driver # Nil
    /\ \E deleted \in BOOLEAN :
        LET r == DeleteSession(driver, deleted) IN
        /\ Local("DeleteSession", Nil, r)
        /\ driver' = r.driver

CallGo ==
    /\ driver # Nil
    /\ \E goURL \in GoURLs, reply \in Replies :
        Command("Go", [goURL |-> goURL], reply, Go(driver, goURL, reply))
    /\ UNCHANGED driver

CallCurrentURL ==
    /\ driver # Nil
    /\ \E reply \in Replies : Command("CurrentURL", Nil, reply, CurrentURL(driver, reply))
    /\ UNCHANGED driver

\* Mutant: a failed Back drops the session.
CallBackDropsSession ==
    /\ driver # Nil
    /\ \E reply \in Replies :
        /\ Command("Back", Nil, reply, Back(driver, reply))
        /\ driver' = IF Back(driver, reply).err # Nil
                     THEN [driver EXCEPT !.sessionID = ""]
                     ELSE driver

CallBack ==
    /\ driver # Nil
    /\ \E reply \in Replies : Command("Back", Nil, reply, Back(driver, reply))
    /\ UNCHANGED driver

CallForward ==
    /\ driver # Nil
    /\ \E reply \in Replies : Command("Forward", Nil, reply, Forward(driver, reply))
    /\ UNCHANGED driver

CallRefresh ==
    /\ driver # Nil
    /\ \E reply \in Replies : Command("Refresh", Nil, reply, Refresh(driver, reply))
    /\ UNCHANGED driver

CallTitle ==
    /\ driver # Nil
    /\ \E reply \in Replies : Command("Title", Nil, reply, Title(driver, reply))
    /\ UNCHANGED driver

Next ==
    \/ CallNewSeleniumWebDriver
    \/ CallDriverURL
    \/ CallByIndex
    \/ CallByCSSSelector
    \/ CallSessionScriptTimeout
    \/ CallSessionPageLoadTimeout
    \/ CallSessionImplicitWaitTimeout
    \/ CallCreateSession
    \/ CallDeleteSession
    \/ CallGo
    \/ CallCurrentURL
    \/ CallBack
    \/ CallForward
    \/ CallRefresh
    \/ CallTitle

Spec == Init /\ [][Next]_vars

(***************************************************************************)
(* Properties                                                              *)
(***************************************************************************)
SessionCommands == {"Go", "CurrentURL", "Back", "Forward", "Refresh", "Title"}

ValueCommands == {"CurrentURL", "Title"}

\* A target URL that is empty or starts with neither scheme.
InvalidTarget(u) == u = "" \/ ~(HasPrefix(u, "http://") \/ HasPrefix(u, "https://"))

ExpectedMethod(name) == IF name \in ValueCommands THEN "GET" ELSE "POST"

ExpectedSuffix(name) ==
    CASE name \in {"Go", "CurrentURL"} -> "/url"
      [] name = "Back" -> "/back"
      [] name = "Forward" -> "/forward"
      [] name = "Refresh" -> "/refresh"
      [] name = "Title" -> "/title"

\* The latest call was a session-scoped command that asked the transport.
Asked == call.name \in SessionCommands /\ call.reply # Nil

\* C1: a session-scoped command called while sessionID is empty returns a
\* MissingSession error and no response, and hands nothing to the transport.
C1_MissingSessionNoRequest ==
    (call.name \in SessionCommands /\ call.sessionID = "")
        => /\ ret.err.kind = "MissingSession"
           /\ ret.val = Nil
           /\ performed = <<>>

C1_Witness ==
    /\ call.name = "Back"
    /\ call.sessionID = ""
    /\ ret.err.kind = "MissingSession"
    /\ performed = <<>>

\* C2 as stated: Go(u) with u empty or without an http/https scheme fails
\* with InvalidURL carrying u and hands nothing to the transport.
C2_InvalidURLAlways ==
    (call.name = "Go" /\ InvalidTarget(call.arg.goURL))
        => /\ ret.err.kind = "InvalidURL"
           /\ ret.err.url = call.arg.goURL
           /\ performed = <<>>

\* C2 amended: on a driver whose sessionID is not empty, Go(u) with u empty
\* or without an http/https scheme fails with InvalidURL carrying u, returns
\* no response and hands nothing to the transport.
C2_InvalidURLWithSession ==
    (call.name = "Go" /\ call.sessionID # "" /\ InvalidTarget(call.arg.goURL))
        => /\ ret.err.kind = "InvalidURL"
           /\ ret.err.url = call.arg.goURL
           /\ ret.val = Nil
           /\ performed = <<>>

C2_Witness ==
    /\ call.name = "Go"
    /\ call.sessionID # ""
    /\ call.arg.goURL = "ftp://x"
    /\ ret.err.kind = "InvalidURL"
    /\ ret.err.url = "ftp://x"

\* The request body is the JSON object {"url": u}.
IsURLObject(body, u) ==
    ParseJSON(body) = [ok |-> TRUE,
                       v |-> [t |-> "object",
                              members |-> <<[k |-> "url", v |-> [t |-> "string", s |-> u]]>>]]

\* C3: a command called with a session and valid arguments hands exactly one
\* request to the transport, whatever the reply: its method is the
\* command's, its URL is serverURL/session/sessionID plus the command's
\* suffix, and for Go(u) its body is the JSON object {"url": u}.
C3_ExactlyOneRequest ==
    (/\ call.name \in SessionCommands
     /\ call.sessionID # ""
     /\ call.name = "Go" => ~InvalidTarget(call.arg.goURL))
        => /\ Len(performed) = 1
           /\ performed[1].method = ExpectedMethod(call.name)
           /\ performed[1].url = call.seleniumURL \o "/session/" \o call.sessionID
                                     \o ExpectedSuffix(call.name)
           /\ IF call.name = "Go"
              THEN /\ IsURLObject(performed[1].body.bytes, call.arg.goURL)
                   /\ call.arg.goURL = "https://x"
                        => performed[1].body.bytes = "{\"url\":\"https://x\"}"
              ELSE performed[1].body = Nil

C3_Witness ==
    /\ call.name = "Go"
    /\ call.arg.goURL = "http://x?a=1&b=\"q\""
    /\ Asked
    /\ call.reply.err # Nil
    /\ Len(performed) = 1
    /\ performed[1].method = "POST"

\* A service URL and capabilities that construction accepts.
Accepted(arg) ==
    /\ arg.serviceURL # ""
    /\ HasPrefix(arg.serviceURL, "http://") \/ HasPrefix(arg.serviceURL, "https://")
    /\ arg.browserName # ""

\* C4: construction returns a driver and no error for a non-empty service
\* URL with an http:// or https:// scheme (and a browser name), and for any
\* other input a validation error and no driver.
C4_ConstructionValidates ==
    call.name = "NewSeleniumWebDriver"
        => IF Accepted(call.arg)
           THEN ret.err = Nil /\ ret.val.kind = "seleniumWebDriver" /\ driver = ret.val
           ELSE ret.val = Nil /\ ret.err.kind = "error"

C4_Witness ==
    /\ call.name = "NewSeleniumWebDriver"
    /\ call.arg = [serviceURL |-> "http://h/", browserName |-> ""]
    /\ ret.val = Nil
    /\ ret.err.kind = "error"

\* C5 as stated: the URL a constructed driver stores has no trailing slash,
\* and constructing with one more slash appended stores the same URL.
C5_NoTrailingSlash ==
    (call.name = "NewSeleniumWebDriver" /\ ret.err = Nil)
        => /\ ~HasSuffix(DriverURL(driver), "/")
           /\ NewSeleniumWebDriver(call.arg.serviceURL \o "/",
                                   [browserName |-> call.arg.browserName]).val = ret.val

\* C6: when the transport returns bytes that are not well-formed JSON, the
\* command returns an Unmarshalling error with the command's name and
\* exactly those bytes, and no response.
C6_MalformedIsUnmarshalling ==
    (Asked /\ call.reply.err = Nil /\ ~ParseJSON(call.reply.bytes).ok)
        => /\ ret.err.kind = "Unmarshalling"
           /\ ret.err.method = call.name
           /\ ret.err.json = call.reply.bytes
           /\ ret.val = Nil

C6_Witness ==
    /\ call.name = "Title"
    /\ call.reply = [bytes |-> "{\"state\":\"success\"}}", err |-> Nil]
    /\ ret.err.kind = "Unmarshalling"
    /\ ret.err.json = "{\"state\":\"success\"}}"

\* The keys of the members of an object.
Keys(v) == {v.members[i].k : i \in 1..Len(v.members)}

\* The reply's top-level shape is the one the command expects: an object
\* with a state member, and a value member for CurrentURL and Title.
ExpectedShape(name, v) ==
    /\ v.t = "object"
    /\ "state" \in Keys(v)
    /\ name \in ValueCommands => "value" \in Keys(v)

\* C7 as stated: when the transport returns well-formed JSON of another
\* shape than the command expects, the command returns an Unmarshalling
\* error and no response.
C7_WrongShapeIsUnmarshalling ==
    (/\ Asked
     /\ call.reply.err = Nil
     /\ ParseJSON(call.reply.bytes).ok
     /\ ~ExpectedShape(call.name, ParseJSON(call.reply.bytes).v))
        => ret.err.kind = "Unmarshalling" /\ ret.val = Nil

\* C8: when the transport reports a failure, the command returns a
\* Communication error with the command's name and the request's URL, and
\* no response, and gives nothing to the decoder.
C8_TransportFailureIsCommunication ==
    (Asked /\ call.reply.err # Nil)
        => /\ ret.err.kind = "Communication"
           /\ ret.err.method = call.name
           /\ ret.err.url = call.seleniumURL \o "/session/" \o call.sessionID
                                \o ExpectedSuffix(call.name)
           /\ ret.val = Nil
           /\ unmarshalled = <<>>

C8_Witness ==
    /\ call.name = "CurrentURL"
    /\ Asked
    /\ call.reply.err # Nil
    /\ call.reply.bytes = "{\"state\":\"success\",\"value\":\"v\"}"
    /\ ret.err.kind = "Communication"
    /\ unmarshalled = <<>>

\* C9: a step that is a call of Go, CurrentURL, Back, Forward, Refresh or
\* Title leaves the driver's sessionID and server URL as they were,
\* whatever the call returns.
C9_CommandsLeaveDriver ==
    [][call'.name \in SessionCommands => driver' = driver]_vars

C9_Witness ==
    /\ call.name = "Back"
    /\ ret.err.kind = "Communication"
    /\ driver.sessionID = "5f3a"
    /\ driver.sessionID = call.sessionID
    /\ driver.seleniumURL = call.seleniumURL

\* C10 as stated: ByIndex(n) returns an index By with value n for n up to
\* 65535 and fails without a value above; ByCSSSelector(s) returns a By
\* with exactly s for a non-empty s and fails for the empty one; and no
\* timeout constructor returns a Timeout of negative milliseconds.
C10_ConstructorsValidate ==
    /\ call.name = "ByIndex"
        => IF call.arg.index <= 65535
           THEN ret.err = Nil /\ ret.val = by("index", [uint |-> call.arg.index])
           ELSE ret.val = Nil /\ ret.err.kind = "InvalidArgument"
    /\ call.name = "ByCSSSelector"
        => IF call.arg.selector # ""
           THEN ret.err = Nil /\ ret.val = by("css selector", [string |-> call.arg.selector])
           ELSE ret.val = Nil /\ ret.err.kind = "InvalidArgument"
    /\ call.name \in {"SessionScriptTimeout", "SessionPageLoadTimeout",
                      "SessionImplicitWaitTimeout"}
        => ret.val.timeout >= 0

====
